---- MODULE Spec2Model ----
(***************************************************************************)
(* A model of the AUR RPC client of src/src/lib.rs: the record mapper      *)
(* Package::from_json, the envelope interpreter Aur::rpc and the four      *)
(* operations search, msearch, info and multiinfo.                         *)
(*                                                                         *)
(* JSON values are the variants of rustc_serialize::json::Json, one record *)
(* shape per variant.  Machine integers are scaled: a u64 has WordBits     *)
(* bits, an i64 one bit less, and the calendar type of chrono covers       *)
(* MaxDays days of SecsPerDay seconds after the epoch, which (as in the    *)
(* real library, 2^43 against 2^63) is less than the i64 range.            *)
(***************************************************************************)
EXTENDS Integers, Sequences, FiniteSets, TLC

VARIABLES pc, op, url, requests, response, obj, ret, outcome, mj, mout

vars == <<pc, op, url, requests, response, obj, ret, outcome, mj, mout>>

(***************************************************************************)
(* Bounds of the model.                                                    *)
(***************************************************************************)
\* bits of a u64 in the model (64 in the program)
WordBits == 5
\* seconds of a calendar day in the model (86400 in chrono)
SecsPerDay == 4
\* the last day after the epoch the calendar type represents
MaxDays == 2
\* the longest `results` array the transport delivers
MaxLen == 2

U64Max == 2^WordBits - 1
I64Max == 2^(WordBits - 1) - 1
MaxTimestamp == (MaxDays + 1) * SecsPerDay - 1

None == [k |-> "None"]
Some(v) == [k |-> "Some", s |-> v]

(***************************************************************************)
(* rustc_serialize::json::Json                                             *)
(***************************************************************************)
JNull == [k |-> "Null"]
JBool(b) == [k |-> "Boolean", b |-> b]
JU64(n) == [k |-> "U64", n |-> n]
JI64(n) == [k |-> "I64", n |-> n]
JF64(repr) == [k |-> "F64", repr |-> repr]
JStr(s) == [k |-> "String", s |-> s]
JArr(a) == [k |-> "Array", a |-> a]
JObj(o) == [k |-> "Object", o |-> o]

\* Json::as_string: Some(&str) of a String, None of anything else
as_string(j) == IF j.k = "String" THEN Some(j.s) ELSE None

\* Json::as_array
as_array(j) == IF j.k = "Array" THEN Some(j.a) ELSE None

(***************************************************************************)
(* Error and the three ways a call ends: a value, an Error, or a crash     *)
(* (a panic or an abort, which returns nothing to the caller).             *)
(***************************************************************************)
InvalidResponse == [k |-> "InvalidResponse"]
AurError(msg) == [k |-> "Aur", message |-> msg]
HttpError(code, msg) == [k |-> "Http", code |-> code, message |-> msg]
IoError == [k |-> "Io"]
SslError == [k |-> "Ssl"]
Utf8Error == [k |-> "Utf8"]
ParseError(code, line, col) ==
    [k |-> "Parse", code |-> code, line |-> line, col |-> col]

Ok(v) == [k |-> "Ok", v |-> v]
Err(e) == [k |-> "Err", e |-> e]
Crash(site) == [k |-> "Crash", site |-> site]

(***************************************************************************)
(* chrono: NaiveDateTime::from_timestamp(secs, 0) splits secs into days    *)
(* and seconds of the day and panics ("invalid or out-of-range datetime")  *)
(* when the day is outside the calendar type's range.                      *)
(***************************************************************************)
from_timestamp(secs) ==
    IF secs \div SecsPerDay > MaxDays
    THEN Crash("from_timestamp")
    ELSE Ok([days |-> secs \div SecsPerDay, secs |-> secs % SecsPerDay])

(***************************************************************************)
(* Package::from_json.  Fields are the struct literal's field expressions  *)
(* in the order they are written, which is the order they are evaluated;   *)
(* each is `match h.remove(key)` with one accepting pattern (two for the   *)
(* optional strings) and `_ => return Err(InvalidResponse)`.               *)
(***************************************************************************)
Fields ==
    << [key |-> "PackageBase",    field |-> "base_name",   ty |-> "String"],
       [key |-> "PackageBaseID",  field |-> "base_id",     ty |-> "U64"],
       [key |-> "Name",           field |-> "name",        ty |-> "String"],
       [key |-> "CategoryID",     field |-> "category_id", ty |-> "U64"],
       [key |-> "Description",    field |-> "description", ty |-> "String"],
       [key |-> "FirstSubmitted", field |-> "created",     ty |-> "Time"],
       [key |-> "LastModified",   field |-> "modified",    ty |-> "Time"],
       [key |-> "ID",             field |-> "id",          ty |-> "U64"],
       [key |-> "License",        field |-> "license",     ty |-> "OptString"],
       [key |-> "Maintainer",     field |-> "maintainer",  ty |-> "OptString"],
       [key |-> "NumVotes",       field |-> "votes",       ty |-> "U64"],
       [key |-> "OutOfDate",      field |-> "out_of_date", ty |-> "Flag"],
       [key |-> "URL",            field |-> "homepage",    ty |-> "String"],
       [key |-> "URLPath",        field |-> "download",    ty |-> "String"],
       [key |-> "Version",        field |-> "version",     ty |-> "String"] >>

NFields == Len(Fields)

\* h.remove(key): Some(value) or None
remove(h, key) == IF key \in DOMAIN h THEN Some(h[key]) ELSE None

\* Some(String(v)) => v
string_field_null_as_empty(r) ==
    IF r.k = "Some" /\ r.s.k = "String" THEN Ok(r.s.s)
    ELSE IF r.k = "Some" /\ r.s.k = "Null" THEN Ok("")
    ELSE Err(InvalidResponse)

string_field(r) ==
    IF r.k = "Some" /\ r.s.k = "String" THEN Ok(r.s.s)
    ELSE Err(InvalidResponse)

\* Some(U64(v)) => v
u64_field(r) ==
    IF r.k = "Some" /\ r.s.k = "U64" THEN Ok(r.s.n)
    ELSE Err(InvalidResponse)

\* Some(U64(v)) => v != 0
flag_field(r) ==
    IF r.k = "Some" /\ r.s.k = "U64" THEN Ok(r.s.n # 0)
    ELSE Err(InvalidResponse)

\* Some(U64(v)) if v <= (i64::MAX as u64) => from_timestamp(v as i64, 0)
time_field(r) ==
    IF r.k = "Some" /\ r.s.k = "U64" /\ r.s.n <= I64Max
    THEN from_timestamp(r.s.n)
    ELSE Err(InvalidResponse)

\* Some(String(v)) => Some(v), Some(Null) => None
optional_field_missing_as_none(r) ==
    IF r.k = "Some" /\ r.s.k = "String" THEN Ok(Some(r.s.s))
    ELSE IF r.k = "None" \/ r.s.k = "Null" THEN Ok(None)
    ELSE Err(InvalidResponse)

optional_field(r) ==
    IF r.k = "Some" /\ r.s.k = "String" THEN Ok(Some(r.s.s))
    ELSE IF r.k = "Some" /\ r.s.k = "Null" THEN Ok(None)
    ELSE Err(InvalidResponse)

\* one field expression of the struct literal: Ok(value), Err(InvalidResponse)
\* for the early return, or the crash of from_timestamp
field_value(h, f) ==
    LET r == remove(h, f.key) IN
    CASE f.ty = "String" -> string_field(r)
      [] f.ty = "U64" -> u64_field(r)
      [] f.ty = "Flag" -> flag_field(r)
      [] f.ty = "Time" -> time_field(r)
      [] f.ty = "OptString" -> optional_field(r)

\* the first field expression, in evaluation order, that does not yield a
\* value (0 when all do)
first_failure(h) ==
    LET bad == {i \in 1..NFields : field_value(h, Fields[i]).k # "Ok"} IN
    IF bad = {} THEN 0 ELSE CHOOSE i \in bad : \A m \in bad : i <= m

from_json(j) ==
    IF j.k # "Object" THEN Err(InvalidResponse)
    ELSE LET h == j.o
             i == first_failure(h) IN
         IF i # 0 THEN field_value(h, Fields[i])
         ELSE Ok([n \in {Fields[m].field : m \in 1..NFields} |->
                    LET m == CHOOSE m \in 1..NFields : Fields[m].field = n
                    IN field_value(h, Fields[m]).v])

(***************************************************************************)
(* Json's Display (to_string): the compact encoding.  An object is a       *)
(* BTreeMap, so its keys are written in sorted order: KeyOrder lists the   *)
(* keys the model uses in that order.  The model's strings hold no         *)
(* character that the encoder escapes.                                     *)
(***************************************************************************)
Digits == <<"0", "1", "2", "3", "4", "5", "6", "7", "8", "9">>

RECURSIVE fmt_u64(_)
fmt_u64(n) ==
    IF n < 10 THEN Digits[n + 1]
    ELSE fmt_u64(n \div 10) \o Digits[(n % 10) + 1]

KeyOrder ==
    << "CategoryID", "Description", "Extra", "FirstSubmitted", "ID",
       "LastModified", "License", "Maintainer", "Name", "NumVotes",
       "OutOfDate", "PackageBase", "PackageBaseID", "URL", "URLPath",
       "Version", "results", "type" >>

quote(s) == "\"" \o s \o "\""

RECURSIVE to_string(_)
RECURSIVE join(_, _)
\* the rendered items separated by commas
join(items, i) ==
    IF i > Len(items) THEN ""
    ELSE (IF i > 1 THEN "," ELSE "") \o items[i] \o join(items, i + 1)

to_string(j) ==
    CASE j.k = "Null" -> "null"
      [] j.k = "Boolean" -> IF j.b THEN "true" ELSE "false"
      [] j.k = "U64" -> fmt_u64(j.n)
      [] j.k = "I64" -> IF j.n < 0 THEN "-" \o fmt_u64(0 - j.n) ELSE fmt_u64(j.n)
      [] j.k = "F64" -> j.repr
      [] j.k = "String" -> quote(j.s)
      [] j.k = "Array" ->
           "[" \o join([i \in 1..Len(j.a) |-> to_string(j.a[i])], 1) \o "]"
      [] j.k = "Object" ->
           LET keys == SelectSeq(KeyOrder, LAMBDA key : key \in DOMAIN j.o) IN
           "{" \o join([i \in 1..Len(keys) |->
                          quote(keys[i]) \o ":" \o to_string(j.o[keys[i]])], 1)
               \o "}"

(***************************************************************************)
(* The transport and the parser, which the client only calls.  A response  *)
(* is its status, its Content-Length header and its body; a body is a JSON *)
(* text (held as the value it parses to), another text (with the error the *)
(* parser reports for it), bytes that are not UTF-8, or a stream that      *)
(* fails while it is read.                                                 *)
(***************************************************************************)
JsonBody(j) == [k |-> "json", j |-> j]
TextBody(s, code, line, col) ==
    [k |-> "text", s |-> s, code |-> code, line |-> line, col |-> col]
BadUtf8Body == [k |-> "badutf8"]
FailingBody == [k |-> "ioerror"]

\* StatusCode::is_success: the 2xx class
is_success(status) == status >= 200 /\ status <= 299

\* Read::read_to_string: the text, or an io::Error (also for invalid UTF-8)
read_to_string(body) ==
    CASE body.k = "json" -> Ok(to_string(body.j))
      [] body.k = "text" -> Ok(body.s)
      [] body.k = "badutf8" -> Err(IoError)
      [] body.k = "ioerror" -> Err(IoError)

\* Json::from_reader, with From<json::ParserError> applied to its error
from_reader(body) ==
    CASE body.k = "json" -> Ok(body.j)
      [] body.k = "text" ->
           Err(ParseError(body.code, body.line, body.col))
      [] body.k = "badutf8" ->
           Err(ParseError("NotUtf8", 0, 0))
      [] body.k = "ioerror" -> Err(IoError)

\* String::with_capacity(len as usize): no allocator delivers more than
\* isize::MAX bytes, and the failed allocation ends the process
with_capacity(len) ==
    IF len > I64Max THEN Crash("with_capacity") ELSE Ok("")

\* From<hyper::Error> for Error
from_hyper_error(e) ==
    CASE e = "Utf8" -> Err(Utf8Error)
      [] e = "Io" -> Err(IoError)
      [] e = "Ssl" -> Err(SslError)
      [] OTHER -> Crash("unexpected error from hyper")

(***************************************************************************)
(* Aur::call_one and Aur::call_multi: the query pairs of the request.      *)
(***************************************************************************)
call_one(fun, arg) == << <<"type", fun>>, <<"arg", arg>> >>

call_multi(fun, args) ==
    << <<"type", fun>> >> \o [i \in 1..Len(args) |-> <<"arg[]", args[i]>>]

(***************************************************************************)
(* Aur::rpc after the send, in its three steps.                            *)
(***************************************************************************)
\* the status check and, for a status that is no success, the drained body
drain(resp) ==
    LET msg == IF resp.content_length.k = "Some"
               THEN with_capacity(resp.content_length.s)
               ELSE Ok("") IN
    IF msg.k = "Crash" THEN msg
    ELSE LET rd == read_to_string(resp.body) IN
         IF rd.k = "Err" THEN rd ELSE Err(HttpError(resp.status, rd.v))

\* Json::from_reader and the match on Json::Object
parse_object(resp) ==
    LET r == from_reader(resp.body) IN
    IF r.k = "Err" THEN r
    ELSE IF r.v.k = "Object" THEN Ok(r.v.o)
    ELSE Err(InvalidResponse)

\* the value of an Aur error
aur_message_rendered(result) == to_string(result)

aur_message(result) ==
    IF result.k = "String" THEN result.s ELSE to_string(result)

\* an interpreter that looks at `type` before it looks for `results`
unwrap_type_first(h) ==
    LET t == remove(h, "type")
        r == remove(h, "results") IN
    IF t.k = "Some" /\ as_string(t.s) = Some("error")
    THEN Err(AurError(IF r.k = "Some" THEN aur_message(r.s) ELSE ""))
    ELSE IF t.k = "None" \/ r.k = "None" THEN Err(InvalidResponse)
    ELSE IF as_string(t.s).k = "None" THEN Err(InvalidResponse)
    ELSE Ok(r.s)

\* an interpreter that takes only the operations' names for a success
unwrap_known_types(h) ==
    LET t == remove(h, "type")
        r == remove(h, "results") IN
    IF t.k = "None" \/ r.k = "None" THEN Err(InvalidResponse)
    ELSE LET typ == as_string(t.s) IN
         IF typ = Some("error") THEN Err(AurError(aur_message(r.s)))
         ELSE IF typ.k = "None" THEN Err(InvalidResponse)
         ELSE IF typ.s \in {"search", "msearch", "info", "multiinfo"} THEN Ok(r.s)
         ELSE Err(InvalidResponse)

\* the envelope: `type` and `results` removed from the object, then the
\* match on typ.as_string()
unwrap(h) ==
    LET t == remove(h, "type")
        r == remove(h, "results") IN
    IF t.k = "None" \/ r.k = "None" THEN Err(InvalidResponse)
    ELSE LET typ == as_string(t.s) IN
         IF typ = Some("error") THEN Err(AurError(aur_message(r.s)))
         ELSE IF typ.k = "None" THEN Err(InvalidResponse)
         ELSE Ok(r.s)

(***************************************************************************)
(* The operations' use of the unwrapped value.                             *)
(***************************************************************************)
\* a.into_iter().map(Package::from_json).collect(): the elements are mapped
\* in order and the first that is no Ok ends the collection
collect(a) ==
    LET bad == {i \in 1..Len(a) : from_json(a[i]).k # "Ok"} IN
    IF bad = {} THEN Ok([i \in 1..Len(a) |-> from_json(a[i]).v])
    ELSE from_json(a[CHOOSE i \in bad : \A m \in bad : i <= m])

\* search, msearch and multiinfo: try!(call), then the match on the value
list_result(r) ==
    IF r.k # "Ok" THEN r
    ELSE IF r.v.k = "Array" THEN collect(r.v.a)
    ELSE Err(InvalidResponse)

\* info: try!(call), then the empty array or the mapped value
info_result(r) ==
    IF r.k # "Ok" THEN r
    ELSE LET arr == as_array(r.v) IN
         IF arr.k = "Some" /\ Len(arr.s) = 0 THEN Ok(None)
         ELSE LET m == from_json(r.v) IN
              IF m.k = "Ok" THEN Ok(Some(m.v)) ELSE m

(***************************************************************************)
(* What the service sends: the values the transport and the mapper are     *)
(* given.                                                                  *)
(***************************************************************************)
Without(h, key) == [x \in DOMAIN h \ {key} |-> h[x]]
With(h, key, v) == [x \in DOMAIN h \cup {key} |-> IF x = key THEN v ELSE h[x]]

PkgA ==
    [PackageBase |-> JStr("foo"), PackageBaseID |-> JU64(1), Name |-> JStr("foo"),
     CategoryID |-> JU64(1), Description |-> JStr("a tool"),
     FirstSubmitted |-> JU64(SecsPerDay), LastModified |-> JU64(MaxTimestamp),
     ID |-> JU64(1), License |-> JStr("MIT"), Maintainer |-> JStr("alice"),
     NumVotes |-> JU64(0), OutOfDate |-> JU64(0), URL |-> JStr(""),
     URLPath |-> JStr("/foo.tar.gz"), Version |-> JStr("1.0")]

PkgB ==
    [PackageBase |-> JStr("bar"), PackageBaseID |-> JU64(U64Max), Name |-> JStr("bar-git"),
     CategoryID |-> JU64(0), Description |-> JStr(""),
     FirstSubmitted |-> JU64(0), LastModified |-> JU64(1),
     ID |-> JU64(2), License |-> JNull, Maintainer |-> JNull,
     NumVotes |-> JU64(U64Max), OutOfDate |-> JU64(SecsPerDay), URL |-> JStr("http://bar"),
     URLPath |-> JStr("/bar.tar.gz"), Version |-> JStr("r1")]

Keys == {Fields[i].key : i \in 1..NFields}

U64Samples ==
    {0, 1, SecsPerDay - 1, SecsPerDay, MaxTimestamp, MaxTimestamp + 1,
     I64Max, I64Max + 1, U64Max}

ValueSamples ==
    {JNull, JBool(TRUE), JI64(0 - 1), JF64("1.5"), JStr("x"), JStr(""),
     JArr(<<>>), JArr(<<JStr("x")>>), JObj(<<>>)}
      \cup {JU64(n) : n \in U64Samples}

\* a few values per key for the objects that differ from a package in two keys
PairSamples == {JNull, JStr("x"), JU64(MaxTimestamp + 1), JU64(I64Max + 1)}

MapperInputs ==
    ValueSamples
      \cup {JObj(PkgA), JObj(PkgB), JObj(With(PkgA, "Extra", JStr("x")))}
      \cup {JObj(Without(h, key)) : h \in {PkgA, PkgB}, key \in Keys}
      \cup {JObj(With(h, key, v)) : h \in {PkgA, PkgB}, key \in Keys, v \in ValueSamples}
      \cup {JObj(With(With(PkgA, "FirstSubmitted", JU64(a)), "LastModified", JU64(b))) :
              a \in U64Samples, b \in U64Samples}
      \cup {JObj(With(Without(PkgA, k1), k2, v)) :
              k1 \in Keys, k2 \in {"FirstSubmitted", "LastModified"}, v \in PairSamples}
      \cup {JObj(With(With(PkgB, k1, v1), k2, v2)) :
              k1 \in Keys, k2 \in {"FirstSubmitted", "LastModified"},
              v1 \in PairSamples, v2 \in PairSamples}

\* the elements of a `results` array: two packages, one without its ID, one
\* whose timestamp fits an i64 and not the calendar
Elems ==
    {JObj(PkgA), JObj(PkgB), JObj(Without(PkgA, "ID")),
     JObj(With(PkgB, "FirstSubmitted", JU64(I64Max)))}

Arrays == {JArr(a) : a \in UNION {[1..n -> Elems] : n \in 0..MaxLen}}

ResultSamples == Arrays \cup Elems \cup {JStr("boom"), JU64(5), JNull}

TypeSamples == {JStr("error"), JStr("info"), JStr("bogus"), JNull, JU64(0)}

Envelopes ==
    {[type |-> t, results |-> r] : t \in TypeSamples, r \in ResultSamples}
      \cup {[type |-> t] : t \in TypeSamples}
      \cup {[results |-> r] : r \in ResultSamples}
      \cup {<<>>}

Bodies ==
    {JsonBody(JObj(e)) : e \in Envelopes}
      \cup {JsonBody(JArr(<<>>)), JsonBody(JStr("boom")), JsonBody(JNull)}
      \cup {TextBody("rate limited", "InvalidSyntax", 1, 1),
            TextBody("", "EOFWhileParsingValue", 1, 1),
            BadUtf8Body, FailingBody}

Statuses == {200, 404, 429}

ContentLengths == {None, Some(1), Some(I64Max + 1)}

Responses ==
    {[status |-> st, content_length |-> cl, body |-> b] :
       st \in Statuses, cl \in ContentLengths, b \in Bodies}

\* hyper::Error's variants: the three the client translates, and one of the
\* others (an invalid status line)
HandledHyperErrors == {"Io", "Ssl", "Utf8"}
HyperErrors == HandledHyperErrors \cup {"Status"}

ListOps == {"search", "msearch", "multiinfo"}
ArgSamples == {"foo"}
MultiArgSamples == {<<>>, <<"foo", "a b">>}

(***************************************************************************)
(* The client: one call at a time, from the request to its outcome.        *)
(***************************************************************************)
Init ==
    /\ pc = "idle"
    /\ op = ""
    /\ url = <<>>
    /\ requests = 0
    /\ response = None
    /\ obj = None
    /\ ret = None
    /\ outcome = None
    /\ mj = None
    /\ mout = None

harness == <<mj, mout>>

\* search, msearch, info: call_one builds the request
CallOne(fun, arg) ==
    /\ pc = "idle"
    /\ op' = fun
    /\ url' = call_one(fun, arg)
    /\ pc' = "send"
    /\ UNCHANGED <<requests, response, obj, ret, outcome, harness>>

\* multiinfo: call_multi builds the request
CallMulti(args) ==
    /\ pc = "idle"
    /\ op' = "multiinfo"
    /\ url' = call_multi("multiinfo", args)
    /\ pc' = "send"
    /\ UNCHANGED <<requests, response, obj, ret, outcome, harness>>

\* rpc: try!(self.client.get(url).send()), the transport failing
SendFails(e) ==
    /\ pc = "send"
    /\ requests' = requests + 1
    /\ ret' = from_hyper_error(e)
    /\ pc' = "returned"
    /\ UNCHANGED <<op, url, response, obj, outcome, harness>>

\* rpc: try!(self.client.get(url).send()), the transport answering
SendAnswers(resp) ==
    /\ pc = "send"
    /\ requests' = requests + 1
    /\ response' = resp
    /\ pc' = "status"
    /\ UNCHANGED <<op, url, obj, ret, outcome, harness>>

\* rpc: if !response.status.is_success() { ... return Err(Http) }
CheckStatus ==
    /\ pc = "status"
    /\ IF is_success(response.status)
       THEN pc' = "parse" /\ UNCHANGED ret
       ELSE pc' = "returned" /\ ret' = drain(response)
    /\ UNCHANGED <<op, url, requests, response, obj, outcome, harness>>

\* rpc: Json::from_reader and the match on Json::Object
ParseBody ==
    /\ pc = "parse"
    /\ LET r == parse_object(response) IN
       IF r.k = "Ok"
       THEN pc' = "envelope" /\ obj' = r.v /\ UNCHANGED ret
       ELSE pc' = "returned" /\ ret' = r /\ UNCHANGED obj
    /\ UNCHANGED <<op, url, requests, response, outcome, harness>>

\* rpc: the envelope's `type` and `results`, and rpc's return
Unwrap ==
    /\ pc = "envelope"
    /\ ret' = unwrap(obj)
    /\ pc' = "returned"
    /\ UNCHANGED <<op, url, requests, response, obj, outcome, harness>>

\* search, msearch, multiinfo: what the operation makes of rpc's return
ListResult ==
    /\ pc = "returned"
    /\ op \in ListOps
    /\ outcome' = list_result(ret)
    /\ pc' = "done"
    /\ UNCHANGED <<op, url, requests, response, obj, ret, harness>>

\* info: what the operation makes of rpc's return
InfoResult ==
    /\ pc = "returned"
    /\ op = "info"
    /\ outcome' = info_result(ret)
    /\ pc' = "done"
    /\ UNCHANGED <<op, url, requests, response, obj, ret, harness>>

\* the call returns its Result and its locals are dropped, which leaves the
\* client as it was before the call; a crash returns nothing
Return ==
    /\ pc = "done"
    /\ outcome.k \in {"Ok", "Err"}
    /\ pc' = "idle"
    /\ op' = ""
    /\ url' = <<>>
    /\ requests' = 0
    /\ response' = None
    /\ obj' = None
    /\ ret' = None
    /\ outcome' = None
    /\ UNCHANGED harness

Steps ==
    \/ \E fun \in {"search", "msearch", "info"}, arg \in ArgSamples : CallOne(fun, arg)
    \/ \E args \in MultiArgSamples : CallMulti(args)
    \/ \E resp \in Responses : SendAnswers(resp)
    \/ CheckStatus
    \/ ParseBody
    \/ Unwrap
    \/ ListResult
    \/ InfoResult
    \/ Return

Next == Steps \/ \E e \in HyperErrors : SendFails(e)

Spec == Init /\ [][Next]_vars

\* the client over a transport that reports only the errors the client
\* translates
NextHandled == Steps \/ \E e \in HandledHyperErrors : SendFails(e)

HandledSpec == Init /\ [][NextHandled]_vars

(***************************************************************************)
(* Package::from_json alone, applied to one JSON value.                    *)
(***************************************************************************)
MapperInit ==
    /\ pc = "idle"
    /\ op = ""
    /\ url = <<>>
    /\ requests = 0
    /\ response = None
    /\ obj = None
    /\ ret = None
    /\ outcome = None
    /\ mj \in MapperInputs
    /\ mout = None

FromJson ==
    /\ mout = None
    /\ mout' = from_json(mj)
    /\ UNCHANGED <<pc, op, url, requests, response, obj, ret, outcome, mj>>

MapperNext == FromJson

MapperSpec == MapperInit /\ [][MapperNext]_vars

(***************************************************************************)
(* The claims.  What the spec says of a package object is written out here *)
(* on its own: the expected JSON type of each key and the Package an       *)
(* object with those types stands for.                                     *)
(***************************************************************************)
ExpectedKinds ==
    [PackageBase |-> {"String"}, PackageBaseID |-> {"U64"}, Name |-> {"String"},
     CategoryID |-> {"U64"}, Description |-> {"String"},
     FirstSubmitted |-> {"U64"}, LastModified |-> {"U64"}, ID |-> {"U64"},
     License |-> {"String", "Null"}, Maintainer |-> {"String", "Null"},
     NumVotes |-> {"U64"}, OutOfDate |-> {"U64"}, URL |-> {"String"},
     URLPath |-> {"String"}, Version |-> {"String"}]

Typed(j, key) == key \in DOMAIN j.o /\ j.o[key].k \in ExpectedKinds[key]

AllTyped(j) == j.k = "Object" /\ \A key \in DOMAIN ExpectedKinds : Typed(j, key)

Timestamps == {"FirstSubmitted", "LastModified"}

\* the calendar timestamp n seconds after the epoch
Calendar(n) == [days |-> n \div SecsPerDay, secs |-> n % SecsPerDay]

Optional(v) == IF v.k = "Null" THEN None ELSE Some(v.s)

PackageOf(o) ==
    [base_name |-> o.PackageBase.s, base_id |-> o.PackageBaseID.n,
     name |-> o.Name.s, version |-> o.Version.s, homepage |-> o.URL.s,
     description |-> o.Description.s, out_of_date |-> (o.OutOfDate.n # 0),
     created |-> Calendar(o.FirstSubmitted.n),
     modified |-> Calendar(o.LastModified.n),
     license |-> Optional(o.License), maintainer |-> Optional(o.Maintainer),
     votes |-> o.NumVotes.n, id |-> o.ID.n, category_id |-> o.CategoryID.n,
     download |-> o.URLPath.s]

Mapped == mout # None

\* a timestamp key whose value fits an i64 and not the calendar
InGap(j, key) ==
    Typed(j, key) /\ j.o[key].n > MaxTimestamp /\ j.o[key].n <= I64Max

\* the key is there with its type and, for a timestamp, within the calendar
Accepted(j, key) ==
    Typed(j, key) /\ (key \in Timestamps => j.o[key].n <= MaxTimestamp)

\* the keys the mapper looks at before `key`
Before(key) ==
    LET i == CHOOSE i \in 1..NFields : Fields[i].key = key
    IN {Fields[m].key : m \in 1..(i - 1)}

\* C1, as stated, for the values on which the mapper returns: a Package is
\* produced if and only if the value is an object holding each of the 15
\* keys with its expected JSON type, and every other value gives exactly
\* InvalidResponse.
C1_AsStated ==
    (Mapped /\ mout.k # "Crash") =>
      /\ mout.k = "Ok" <=> AllTyped(mj)
      /\ mout.k # "Ok" => mout = Err(InvalidResponse)

\* C1, amended: a Package is produced if and only if the value is an object
\* holding each of the 15 keys with its expected JSON type and both
\* timestamps lie within the calendar's range, and it then holds every field
\* of the object; the mapper crashes exactly when a timestamp fits an i64 and
\* not the calendar and every key looked at before it is accepted; every
\* other value gives exactly InvalidResponse.
C1_Mapper ==
    Mapped =>
      /\ mout.k = "Ok" <=>
           AllTyped(mj) /\ \A t \in Timestamps : mj.o[t].n <= MaxTimestamp
      /\ mout.k = "Ok" => mout.v = PackageOf(mj.o)
      /\ mout.k = "Crash" <=>
           /\ mj.k = "Object"
           /\ \E t \in Timestamps :
                InGap(mj, t) /\ \A key \in Before(t) : Accepted(mj, key)
      /\ mout.k \notin {"Ok", "Crash"} => mout = Err(InvalidResponse)

\* C1's case: a package with an extra key is mapped, and one without its ID
\* is refused
C1_Witness ==
    /\ Mapped
    /\ \/ mj = JObj(With(PkgA, "Extra", JStr("x"))) /\ mout.k = "Ok"
       \/ mj = JObj(Without(PkgA, "ID")) /\ mout = Err(InvalidResponse)

\* the object is a package but for what it holds under `key`
OtherwiseValid(j, key) ==
    j.k = "Object" /\ from_json(JObj(With(j.o, key, PkgA[key]))).k = "Ok"

\* C6, as stated: in an otherwise valid package object, an unsigned
\* FirstSubmitted or LastModified that does not fit an i64 gives
\* InvalidResponse, and every one that fits gives a Package whose created
\* (modified) is the calendar timestamp that many seconds after the epoch;
\* the mapper never crashes.
C6_AsStated ==
    Mapped =>
      /\ mout.k # "Crash"
      /\ \A t \in Timestamps :
           (OtherwiseValid(mj, t) /\ t \in DOMAIN mj.o /\ mj.o[t].k = "U64") =>
             IF mj.o[t].n > I64Max
             THEN mout = Err(InvalidResponse)
             ELSE /\ mout.k = "Ok"
                  /\ LET c == IF t = "FirstSubmitted"
                              THEN mout.v.created ELSE mout.v.modified
                     IN c.days * SecsPerDay + c.secs = mj.o[t].n /\ c.secs < SecsPerDay

\* C9: in an otherwise valid package object, License (Maintainer) null maps
\* to an absent license (maintainer) and a string to a present one; any other
\* type there, a missing License or Maintainer key, and null under any of the
\* other 13 keys give InvalidResponse.
C9_Optional ==
    Mapped =>
      \A key \in DOMAIN ExpectedKinds :
        OtherwiseValid(mj, key) =>
          LET got == IF key = "License" THEN mout.v.license ELSE mout.v.maintainer IN
          IF key \in {"License", "Maintainer"}
          THEN CASE key \notin DOMAIN mj.o -> mout = Err(InvalidResponse)
                 [] key \in DOMAIN mj.o /\ mj.o[key].k = "Null" ->
                      mout.k = "Ok" /\ got = None
                 [] key \in DOMAIN mj.o /\ mj.o[key].k = "String" ->
                      mout.k = "Ok" /\ got = Some(mj.o[key].s)
                 [] OTHER -> mout = Err(InvalidResponse)
          ELSE (key \in DOMAIN mj.o /\ mj.o[key].k = "Null") =>
                 mout = Err(InvalidResponse)

\* C9's case: a package whose License is null is mapped without a license
C9_Witness ==
    /\ Mapped
    /\ mj = JObj(With(PkgA, "License", JNull))
    /\ mout.k = "Ok"
    /\ mout.v.license = None
    /\ mout.v.maintainer = Some("alice")

(***************************************************************************)
(* The claims about the client.                                            *)
(***************************************************************************)
Returned == pc \in {"returned", "done"}

Answered == Returned /\ response # None

\* the response is a success whose body parses to a JSON value
Parsed == Answered /\ is_success(response.status) /\ response.body.k = "json"

\* ... to an object holding both `type` and `results`
Enveloped ==
    /\ Parsed
    /\ response.body.j.k = "Object"
    /\ {"type", "results"} \subseteq DOMAIN response.body.j.o

EnvType == response.body.j.o["type"]
EnvResults == response.body.j.o["results"]

\* C2: a success status and an envelope whose `type` is "error" give an Aur
\* error whose message is `results` itself when that is a string and its
\* rendering when it is any other value.
C2_ServiceError ==
    (Enveloped /\ EnvType = JStr("error")) =>
      /\ ret.k = "Err"
      /\ ret.e.k = "Aur"
      /\ ret.e.message =
           (IF EnvResults.k = "String" THEN EnvResults.s ELSE to_string(EnvResults))
      /\ EnvResults = JStr("boom") => ret.e.message = "boom"
      /\ EnvResults = JU64(5) => ret.e.message = "5"
      /\ EnvResults = JNull => ret.e.message = "null"
      /\ EnvResults = JArr(<<>>) => ret.e.message = "[]"
      /\ pc = "done" => outcome = ret

\* C2's case: the envelope {"type":"error","results":"boom"}
C2_Witness ==
    /\ pc = "done"
    /\ Enveloped
    /\ EnvType = JStr("error")
    /\ EnvResults = JStr("boom")
    /\ outcome = Err(AurError("boom"))

\* the body is text the client can read: valid UTF-8 from a stream that
\* does not fail
Readable == response.body.k \in {"text", "json"}

\* C3, as stated, for the bodies the client can read: a status that is no
\* success gives an Http error with the status and the body's text, never an
\* Aur, InvalidResponse or Parse error or a value, also when the body is a
\* well-formed envelope.
C3_AsStated ==
    (Answered /\ ~is_success(response.status) /\ Readable) =>
      /\ ret.k = "Err"
      /\ ret.e.k = "Http"
      /\ ret.e.code = response.status
      /\ response.body.k = "text" => ret.e.message = response.body.s
      /\ response.body.k = "json" => ret.e.message = to_string(response.body.j)

\* C4: with a success status and a body that is JSON, a value that is no
\* object, an object without `type` or without `results`, and a `type` that
\* is no string all give InvalidResponse; so does `type` "error" without
\* `results`.
C4_Malformed ==
    (Parsed /\ (~Enveloped \/ EnvType.k # "String")) => ret = Err(InvalidResponse)

\* C4's case: {"type":"error"} without `results`
C4_Witness ==
    /\ Parsed
    /\ response.body.j = JObj([type |-> JStr("error")])
    /\ ret = Err(InvalidResponse)

\* C5: with a success status, a `results` key and a `type` that is a string
\* other than "error", rpc returns the `results` value as it is, whatever
\* the `type` and whatever operation was called.
C5_Permissive ==
    (Enveloped /\ EnvType.k = "String" /\ EnvType.s # "error") => ret = Ok(EnvResults)

\* C5's case: a search answered with type "info", and with an unknown type
C5_Witness ==
    /\ Enveloped
    /\ op = "search"
    /\ EnvType \in {JStr("info"), JStr("bogus")}
    /\ ret = Ok(EnvResults)

Accepts(j) == from_json(j).k = "Ok"
Rejects(j) == from_json(j) = Err(InvalidResponse)

\* C7, as stated: info gives "absent" exactly for an empty array, the mapped
\* Package for an object the mapper accepts, and InvalidResponse for every
\* other value.
C7_AsStated ==
    (pc = "done" /\ op = "info" /\ ret.k = "Ok") =>
      CASE ret.v = JArr(<<>>) -> outcome = Ok(None)
        [] ret.v.k = "Object" /\ Accepts(ret.v) ->
             outcome = Ok(Some(from_json(ret.v).v))
        [] OTHER -> outcome = Err(InvalidResponse)

\* C8, as stated: search, msearch and multiinfo give the elements' Packages
\* in order when the mapper accepts every element, InvalidResponse when it
\* rejects any element, and InvalidResponse for a value that is no array.
C8_AsStated ==
    (pc = "done" /\ op \in ListOps /\ ret.k = "Ok") =>
      IF ret.v.k # "Array" THEN outcome = Err(InvalidResponse)
      ELSE LET a == ret.v.a IN
           /\ (\A i \in 1..Len(a) : Accepts(a[i])) =>
                /\ outcome.k = "Ok"
                /\ Len(outcome.v) = Len(a)
                /\ \A i \in 1..Len(a) : outcome.v[i] = PackageOf(a[i].o)
           /\ (\E i \in 1..Len(a) : Rejects(a[i])) => outcome = Err(InvalidResponse)

\* C10, as stated: a call issues one GET and ends with one outcome, a value
\* or an Error; an error of rpc is the call's outcome; nothing of a call is
\* left when the next one starts.
C10_AsStated ==
    /\ pc = "done" =>
         /\ requests = 1
         /\ outcome.k \in {"Ok", "Err"}
         /\ ret.k = "Err" => outcome = ret
    /\ Returned => ret.k \in {"Ok", "Err"}
    /\ pc = "idle" =>
         /\ requests = 0
         /\ response = None /\ obj = None /\ ret = None /\ outcome = None

====
